---- MODULE Spec2Model ----
(***************************************************************************)
(* Model of src/Miscellaneous/ChthollyTree.cpp: the interval partition     *)
(* s_ (a std::set<Node> ordered by Node::l), the splitter split_, the      *)
(* modular primitives norm_mod_, mulmod_, qpow_ and the range operations   *)
(* build, add, assign, kth, powsum.                                        *)
(*                                                                         *)
(* long long is modelled as a signed W-bit integer.  A signed overflow is  *)
(* undefined behaviour: the arithmetic functions return a record           *)
(* [ovf, val] with the wrapped value, and a call whose arithmetic          *)
(* overflowed either returns the wrapped result or traps.                  *)
(* Misuse of a std::set iterator (walking past end(), using an iterator    *)
(* whose node was erased) is undefined behaviour too: it sets the flag ub  *)
(* and leaves s_ in one of the states the walk can fault in.               *)
(***************************************************************************)
EXTENDS Integers, Sequences, FiniteSets, TLC

\* ------------------------------------------------------------------ bounds
\* Width in bits of the modelled long long.
W == 4
\* Largest array length given to build.
MaxN == 3
\* Largest value stored in an interval (values are kept in -1..MaxVal).
MaxVal == 1
\* Largest small modulus given to powsum (LLMax is given as well).
MaxMod == 3

LLMax == 2^(W-1) - 1
LLMin == -(2^(W-1))
LL == LLMin..LLMax
InLL(x) == x >= LLMin /\ x <= LLMax

Vals == -1..MaxVal
Deltas == {-1, 1, 2}
Exps == 0..2
Mods == (1..MaxMod) \cup {LLMax}

Min(S) == CHOOSE x \in S : \A y \in S : x <= y
Max(S) == CHOOSE x \in S : \A y \in S : x >= y

\* ------------------------------------------------- std::set<Node> and iterators
\* struct Node { int l; int r; mutable ll v; }, ordered by l alone.
Node(l, r, v) == [l |-> l, r |-> r, v |-> v]

\* An iterator is end() or points to the node whose key is l.
EndIt == [atEnd |-> TRUE, l |-> 0]
It(k) == [atEnd |-> FALSE, l |-> k]

Keys(S) == {m.l : m \in S}
NodeAt(S, k) == CHOOSE m \in S : m.l = k

\* s_.begin(): the node with the least key, end() in an empty set.
begin(S) == IF S = {} THEN EndIt ELSE It(Min(Keys(S)))

\* s_.lower_bound(Node{pos,0,0}): the first node whose l >= pos.
lower_bound(S, pos) ==
  LET ks == {k \in Keys(S) : k >= pos}
  IN IF ks = {} THEN EndIt ELSE It(Min(ks))

\* The keys strictly before iterator it; --it moves to the largest of them.
Before(S, it) == IF it.atEnd THEN Keys(S) ELSE {k \in Keys(S) : k < it.l}

\* s_.insert(node): a set holds one node per key, a second one is not inserted.
insert(S, node) == IF node.l \in Keys(S) THEN S ELSE S \cup {node}

\* ------------------------------------------------------------------ split_
SplitResult(S, it, erased, ub) == [s |-> S, it |-> it, erased |-> erased, ub |-> ub]

\* split_ with the off-by-one cut [l, pos] / [pos, r].
split_cut_overlap(S, n, pos) ==
  IF pos <= 0 THEN SplitResult(S, begin(S), {}, FALSE)
  ELSE IF pos >= n THEN SplitResult(S, EndIt, {}, FALSE)
  ELSE LET it == lower_bound(S, pos) IN
    IF ~it.atEnd /\ it.l = pos THEN SplitResult(S, it, {}, FALSE)
    ELSE IF Before(S, it) = {} THEN SplitResult(S, EndIt, {}, TRUE)
    ELSE LET p  == NodeAt(S, Max(Before(S, it)))
             S1 == S \ {p}
             S2 == insert(S1, Node(p.l, pos, p.v))
             S3 == insert(S2, Node(pos, p.r, p.v))
         IN SplitResult(S3, It(pos), {p.l}, FALSE)

\* split_ that returns the left part [l, pos - 1] of the interval it cut.
split_returns_left(S, n, pos) ==
  IF pos <= 0 THEN SplitResult(S, begin(S), {}, FALSE)
  ELSE IF pos >= n THEN SplitResult(S, EndIt, {}, FALSE)
  ELSE LET it == lower_bound(S, pos) IN
    IF ~it.atEnd /\ it.l = pos THEN SplitResult(S, it, {}, FALSE)
    ELSE IF Before(S, it) = {} THEN SplitResult(S, EndIt, {}, TRUE)
    ELSE LET p  == NodeAt(S, Max(Before(S, it)))
             S1 == S \ {p}
             S2 == insert(S1, Node(p.l, pos - 1, p.v))
             S3 == insert(S2, Node(pos, p.r, p.v))
         IN SplitResult(S3, It(p.l), {p.l}, FALSE)

\* split_ that cuts the first interval at pos <= 0 and the last at pos >= n too.
split_no_guard(S, n, pos) ==
  LET it == lower_bound(S, pos) IN
    IF ~it.atEnd /\ it.l = pos THEN SplitResult(S, it, {}, FALSE)
    ELSE IF Before(S, it) = {} THEN SplitResult(S, begin(S), {}, FALSE)
    ELSE LET p  == NodeAt(S, Max(Before(S, it)))
             S1 == S \ {p}
             S2 == insert(S1, Node(p.l, pos - 1, p.v))
             S3 == insert(S2, Node(pos, p.r, p.v))
         IN SplitResult(S3, It(pos), {p.l}, FALSE)

\* split_ without s_.erase(it): the interval cut stays whole, the insert of
\* [l, pos - 1] finds its key taken, and [pos, r] is added beside it.
split_keeps_whole(S, n, pos) ==
  IF pos <= 0 THEN SplitResult(S, begin(S), {}, FALSE)
  ELSE IF pos >= n THEN SplitResult(S, EndIt, {}, FALSE)
  ELSE LET it == lower_bound(S, pos) IN
    IF ~it.atEnd /\ it.l = pos THEN SplitResult(S, it, {}, FALSE)
    ELSE IF Before(S, it) = {} THEN SplitResult(S, EndIt, {}, TRUE)
    ELSE LET p  == NodeAt(S, Max(Before(S, it)))
             S2 == insert(S, Node(p.l, pos - 1, p.v))
             S3 == insert(S2, Node(pos, p.r, p.v))
         IN SplitResult(S3, It(pos), {}, FALSE)

\* split_(pos) on the set S of a structure of length n: the new set, the
\* iterator returned, the keys of the nodes erased (iterators to them dangle)
\* and whether --it was applied to begin() (undefined).
split_(S, n, pos) ==
  IF pos <= 0 THEN SplitResult(S, begin(S), {}, FALSE)
  ELSE IF pos >= n THEN SplitResult(S, EndIt, {}, FALSE)
  ELSE LET it == lower_bound(S, pos) IN
    IF ~it.atEnd /\ it.l = pos THEN SplitResult(S, it, {}, FALSE)
    ELSE IF Before(S, it) = {} THEN SplitResult(S, EndIt, {}, TRUE)
    ELSE LET p  == NodeAt(S, Max(Before(S, it)))
             S1 == S \ {p}
             S2 == insert(S1, Node(p.l, pos - 1, p.v))
             S3 == insert(S2, Node(pos, p.r, p.v))
         IN SplitResult(S3, It(pos), {p.l}, FALSE)

\* ------------------------------------------------------- modular primitives
\* A long long computation yields the value the W-bit type holds (the
\* two's-complement wrap of the exact result) and whether a step left the
\* type's range or divided by zero, which is undefined behaviour.
Wrap(x) == ((x - LLMin) % (2^W)) + LLMin
LLValue(x, before) == [ovf |-> before \/ ~InLL(x), val |-> Wrap(x)]

\* C++ a % b for b # 0: the remainder has the sign of the dividend.
Abs(x) == IF x < 0 THEN -x ELSE x
CRem(a, b) == IF a >= 0 THEN a % Abs(b) ELSE -((-a) % Abs(b))

\* a % b on long long.  b = 0 and LLMin % -1 are undefined: the build traps,
\* or goes on with the remainder the divide instruction leaves (a for b = 0,
\* 0 for LLMin % -1); ovf records that the step was undefined.
RemLL(a, b) ==
  IF b = 0 THEN [ovf |-> TRUE, val |-> a]
  ELSE [ovf |-> (a = LLMin /\ b = -1), val |-> CRem(a, b)]

\* norm_mod_(x, mod): x %= mod; if (x < 0) x += mod.
norm_mod_(x, mod) ==
  LET x1 == RemLL(x, mod)
  IN LLValue(IF x1.val < 0 THEN x1.val + mod ELSE x1.val, x1.ovf)

\* The while (b > 0) loop of mulmod_, from the state (a, b, res); ovf: a
\* step so far has overflowed.
RECURSIVE mulmod_loop(_, _, _, _, _)
mulmod_loop(a, b, mod, res, ovf) ==
  IF b <= 0 THEN [ovf |-> ovf, val |-> res]
  ELSE LET sum  == LLValue(res + a, FALSE)
           red  == IF sum.val >= mod THEN LLValue(sum.val - mod, sum.ovf) ELSE sum
           res1 == IF b % 2 = 1 THEN red ELSE LLValue(res, FALSE)
           diff == LLValue(mod - a, FALSE)
           a1   == IF a >= diff.val
                   THEN LLValue(a - diff.val, diff.ovf)
                   ELSE LLValue(a + a, diff.ovf)
       IN mulmod_loop(a1.val, b \div 2, mod, res1.val, ovf \/ res1.ovf \/ a1.ovf)

\* mulmod_(a, b, mod): (a * b) % mod by binary multiplication.
mulmod_(a, b, mod) ==
  LET na == norm_mod_(a, mod)
      nb == norm_mod_(b, mod)
  IN mulmod_loop(na.val, nb.val, mod, 0, na.ovf \/ nb.ovf)

\* The while (exp > 0) loop of qpow_, from the state (base, exp, res).
RECURSIVE qpow_loop(_, _, _, _, _)
qpow_loop(base, exp, mod, res, ovf) ==
  IF exp <= 0 THEN [ovf |-> ovf, val |-> res]
  ELSE LET res1  == IF exp % 2 = 1 THEN mulmod_(res, base, mod) ELSE LLValue(res, FALSE)
           base1 == mulmod_(base, base, mod)
       IN qpow_loop(base1.val, exp \div 2, mod, res1.val, ovf \/ res1.ovf \/ base1.ovf)

\* qpow_(base, exp, mod): base^exp % mod by binary exponentiation.
qpow_(base, exp, mod) ==
  LET one == RemLL(1, mod)
      nb  == norm_mod_(base, mod)
  IN qpow_loop(nb.val, exp, mod, one.val, one.ovf \/ nb.ovf)

\* ------------------------------------------------------- range operations
\* The two splits in the other order, itl = split_(l); itr = split_(r + 1);
\* dangling is then the second split erasing the node itl points to.
Splits_l_first(S, n, l, r) ==
  LET lo == split_(S, n, l)
      hi == split_(lo.s, n, r + 1)
  IN [s1 |-> lo.s, itr |-> hi.it, s2 |-> hi.s, itl |-> lo.it,
      ub |-> hi.ub \/ lo.ub,
      dangling |-> ~lo.it.atEnd /\ lo.it.l \in hi.erased]

\* The two splits every range operation starts with:
\*   itr = split_(r + 1);  itl = split_(l);
\* s1, itr: the set and the iterator after the first split; s2, itl: after the
\* second.  dangling: the second split erased the node itr points to.
Splits(S, n, l, r) ==
  LET hi == split_(S, n, r + 1)
      lo == split_(hi.s, n, l)
  IN [s1 |-> hi.s, itr |-> hi.it, s2 |-> lo.s, itl |-> lo.it,
      ub |-> hi.ub \/ lo.ub,
      dangling |-> ~hi.it.atEnd /\ hi.it.l \in lo.erased]

\* for (it = itl; it != itr; ++it) ends at itr without leaving the set.
WalkDefined(sp) ==
  /\ ~sp.ub
  /\ ~sp.dangling
  /\ \/ sp.itl = sp.itr
     \/ ~sp.itl.atEnd /\ (sp.itr.atEnd \/ sp.itl.l < sp.itr.l)

\* The walk with the closed end, for (it = itl; ; ++it) { ...; if (it == itr) break; }.
WalkKeys_includes_itr(sp) ==
  IF sp.itl.atEnd THEN {}
  ELSE {k \in Keys(sp.s2) : k >= sp.itl.l /\ (sp.itr.atEnd \/ k <= sp.itr.l)}

\* The keys the walk [itl, itr) visits, when it is defined.
WalkKeys(sp) ==
  IF sp.itl.atEnd THEN {}
  ELSE {k \in Keys(sp.s2) : k >= sp.itl.l /\ (sp.itr.atEnd \/ k < sp.itr.l)}

\* The keys from itl to the last node: what a walk that misses itr visits
\* before it steps onto end().
RunawayKeys(sp) ==
  IF sp.itl.atEnd THEN {} ELSE {k \in Keys(sp.s2) : k >= sp.itl.l}

\* The nodes with the given keys, in set order.
RECURSIVE NodeSeq(_, _)
NodeSeq(S, ks) ==
  IF ks = {} THEN <<>>
  ELSE <<NodeAt(S, Min(ks))>> \o NodeSeq(S, ks \ {Min(ks)})

\* What a call leaves: its two splits (sp), the set (the set after the
\* splits when S is omitted), whether the program faulted (ub), the value
\* returned (0 for void) and whether the arithmetic overflowed (ovf).
Result(sp, S, ub, ret, ovf) == [sp |-> sp, s |-> S, ub |-> ub, ret |-> ret, ovf |-> ovf]
Outcome(sp, S, ub, ret) == Result(sp, S, ub, ret, FALSE)

\* it->v = x in place of it->v += x.
AddTo_overwrites(S, ks, x) ==
  {IF m.l \in ks THEN Node(m.l, m.r, x) ELSE m : m \in S}

\* it->v += x on the nodes with keys ks.
AddTo(S, ks, x) ==
  {IF m.l \in ks THEN Node(m.l, m.r, m.v + x) ELSE m : m \in S}

\* add that walks the whole set instead of [itl, itr).
add_whole_set(S, n, l, r, x) ==
  LET sp == Splits(S, n, l, r)
  IN {Outcome(sp, AddTo(sp.s2, Keys(sp.s2), x), FALSE, 0)}

\* add that replaces the intervals walked by one interval [l, r] when they
\* all hold the same value.
add_coalesces(S, n, l, r, x) ==
  LET sp == Splits(S, n, l, r)
      vs == {m.v : m \in {q \in sp.s2 : q.l \in WalkKeys(sp)}}
  IN IF Cardinality(vs) = 1
     THEN {Outcome(sp, insert({m \in sp.s2 : m.l \notin WalkKeys(sp)},
                              Node(l, r, (CHOOSE v \in vs : TRUE) + x)), FALSE, 0)}
     ELSE {Outcome(sp, AddTo(sp.s2, WalkKeys(sp), x), FALSE, 0)}

\* add(l, r, x): the outcomes of the call on set S of length n.
add(S, n, l, r, x) ==
  LET sp == Splits(S, n, l, r)
  IN IF sp.ub THEN {Outcome(sp, sp.s2, TRUE, 0)}
     ELSE IF WalkDefined(sp) THEN {Outcome(sp, AddTo(sp.s2, WalkKeys(sp), x), FALSE, 0)}
     ELSE {Outcome(sp, sp.s2, TRUE, 0),
           Outcome(sp, AddTo(sp.s2, RunawayKeys(sp), x), TRUE, 0)}

\* assign that does not erase the old intervals before inserting the new one.
assign_no_erase(S, n, l, r, x) ==
  LET sp == Splits(S, n, l, r)
  IN {Outcome(sp, insert(sp.s2, Node(l, r, x)), FALSE, 0)}

\* assign that inserts Node{l, r, itl->v + x} in place of Node{l, r, x}.
assign_adds(S, n, l, r, x) ==
  LET sp == Splits(S, n, l, r)
      v  == NodeAt(sp.s2, l).v
  IN {Outcome(sp, insert({m \in sp.s2 : m.l \notin WalkKeys(sp)}, Node(l, r, v + x)), FALSE, 0)}

\* assign with s_.erase(std::next(itl), itr): the interval at l stays, and
\* the insert of a second node with the key l does nothing.
assign_keeps_first(S, n, l, r, x) ==
  LET sp == Splits(S, n, l, r)
  IN {Outcome(sp, insert({m \in sp.s2 : m.l \notin (WalkKeys(sp) \ {l})}, Node(l, r, x)),
              FALSE, 0)}

\* assign(l, r, x): s_.erase(itl, itr); s_.insert(Node{l, r, x}).
assign(S, n, l, r, x) ==
  LET sp == Splits(S, n, l, r)
      erase(ks) == {m \in sp.s2 : m.l \notin ks}
  IN IF sp.ub THEN {Outcome(sp, sp.s2, TRUE, 0)}
     ELSE IF WalkDefined(sp)
          THEN {Outcome(sp, insert(erase(WalkKeys(sp)), Node(l, r, x)), FALSE, 0)}
     ELSE {Outcome(sp, sp.s2, TRUE, 0), Outcome(sp, erase(RunawayKeys(sp)), TRUE, 0)}

\* std::ranges::sort(vec) on pairs (value, count): lexicographic order.
PairLess(p, q) == p[1] < q[1] \/ (p[1] = q[1] /\ p[2] < q[2])

RECURSIVE InsertSorted(_, _)
InsertSorted(vec, p) ==
  IF vec = <<>> THEN <<p>>
  ELSE IF PairLess(p, Head(vec)) THEN <<p>> \o vec
  ELSE <<Head(vec)>> \o InsertSorted(Tail(vec), p)

\* kth without the sort: vec stays in position order.
sort_omitted(vec) == vec

RECURSIVE sort(_)
sort(vec) == IF vec = <<>> THEN <<>> ELSE InsertSorted(sort(Tail(vec)), Head(vec))

\* vec.emplace_back(it->v, it->r - it->l + 1) for the nodes walked.
RECURSIVE PairsOf(_)
PairsOf(nodes) ==
  IF nodes = <<>> THEN <<>>
  ELSE <<<<Head(nodes).v, Head(nodes).r - Head(nodes).l + 1>>>> \o PairsOf(Tail(nodes))

\* kth_scan that tests k < 0 in place of k <= 0.
RECURSIVE kth_scan_strict(_, _)
kth_scan_strict(vec, k) ==
  IF vec = <<>> THEN -1
  ELSE LET k1 == k - Head(vec)[2]
       IN IF k1 < 0 THEN Head(vec)[1] ELSE kth_scan_strict(Tail(vec), k1)

\* kth_scan that returns the largest value when the rank is not reached.
RECURSIVE kth_scan_clamped(_, _)
kth_scan_clamped(vec, k) ==
  IF vec = <<>> THEN -1
  ELSE LET k1 == k - Head(vec)[2]
       IN IF k1 <= 0 \/ Tail(vec) = <<>> THEN Head(vec)[1]
          ELSE kth_scan_clamped(Tail(vec), k1)

\* for (auto& [val, cnt] : vec) { k -= cnt; if (k <= 0) return val; } return -1;
RECURSIVE kth_scan(_, _)
kth_scan(vec, k) ==
  IF vec = <<>> THEN -1
  ELSE LET k1 == k - Head(vec)[2]
       IN IF k1 <= 0 THEN Head(vec)[1] ELSE kth_scan(Tail(vec), k1)

\* kth(l, r, k): the outcomes of the call on set S of length n.
kth(S, n, l, r, k) ==
  LET sp == Splits(S, n, l, r)
  IN IF sp.ub \/ ~WalkDefined(sp) THEN {Outcome(sp, sp.s2, TRUE, 0)}
     ELSE {Outcome(sp, sp.s2, FALSE,
                   kth_scan(sort(PairsOf(NodeSeq(sp.s2, WalkKeys(sp)))), k))}

\* The loop of powsum over the nodes walked, from the accumulator ans.
RECURSIVE powsum_loop(_, _, _, _, _)
powsum_loop(nodes, x, y, ans, ovf) ==
  IF nodes = <<>> THEN [ovf |-> ovf, val |-> ans]
  ELSE LET m   == Head(nodes)
           len == RemLL(m.r - m.l + 1, y)
           pw  == qpow_(m.v, x, y)
           mm  == mulmod_(len.val, pw.val, y)
           sum == LLValue(ans + mm.val, FALSE)
           red == RemLL(sum.val, y)
       IN powsum_loop(Tail(nodes), x, y, red.val,
                      ovf \/ len.ovf \/ pw.ovf \/ mm.ovf \/ sum.ovf \/ red.ovf)

\* powsum that normalizes in place, it->v = norm_mod_(it->v, y), before it
\* raises the value to the power.
powsum_writes_back(S, n, l, r, x, y) ==
  LET sp  == Splits(S, n, l, r)
      res == powsum_loop(NodeSeq(sp.s2, WalkKeys(sp)), x, y, 0, FALSE)
      T   == {IF m.l \in WalkKeys(sp) THEN Node(m.l, m.r, norm_mod_(m.v, y).val) ELSE m
              : m \in sp.s2}
  IN {Result(sp, T, FALSE, res.val, res.ovf)}

\* powsum(l, r, x, y): the outcomes of the call on set S of length n.  When
\* the arithmetic overflows, the build either wraps (the wrapped result is
\* returned) or traps (the program stops, ub).
powsum(S, n, l, r, x, y) ==
  LET sp == Splits(S, n, l, r)
  IN IF sp.ub \/ ~WalkDefined(sp) THEN {Outcome(sp, sp.s2, TRUE, 0)}
     ELSE LET res == powsum_loop(NodeSeq(sp.s2, WalkKeys(sp)), x, y, 0, FALSE)
          IN IF res.ovf
             THEN {Result(sp, sp.s2, FALSE, res.val, TRUE),
                   Result(sp, sp.s2, TRUE, 0, TRUE)}
             ELSE {Outcome(sp, sp.s2, FALSE, res.val)}

\* build without s_.clear(): the nodes are inserted into the set as it is.
clear_omitted(S) == S

\* s_.clear().
clear(S) == {}

\* for (i = 0; i < n_; ++i) s_.insert(Node{i, i, a[i]}), from index i on.
RECURSIVE build_loop(_, _, _)
build_loop(S, a, i) ==
  IF i >= Len(a) THEN S
  ELSE build_loop(insert(S, Node(i, i, a[i + 1])), a, i + 1)

\* build(a) on the set S: s_.clear(); one node [i, i, a[i]] per element
\* (n_ = a.size() is the caller's assignment in Build).
build(S, a) == build_loop(clear(S), a, 0)

\* ============================================================ MPQ::HashTable
\* HashType = std::uint32_t, held as its two 16-bit halves <<high, low>>.
Half == 65536
U32(hi, lo) == <<hi, lo>>

\* a + b (mod 2^32).
Add32(a, b) ==
  LET lo == a[2] + b[2]
  IN U32((a[1] + b[1] + (lo \div Half)) % Half, lo % Half)

\* a ^ b on the low `bits` bits.
RECURSIVE XorBits(_, _, _)
XorBits(a, b, bits) ==
  IF bits = 0 THEN 0
  ELSE ((a + b) % 2) + 2 * XorBits(a \div 2, b \div 2, bits - 1)

Xor32(a, b) == U32(XorBits(a[1], b[1], 16), XorBits(a[2], b[2], 16))

\* a << 5 (mod 2^32).
Shl5(a) == U32((a[1] * 32 + ((a[2] * 32) \div Half)) % Half, (a[2] * 32) % Half)

\* a % n for a bucket count n.
Mod32(a, n) == ((a[1] % n) * (Half % n) + (a[2] % n)) % n

\* generate_crypt_table: seed = (seed * 125 + 3) % 0x2AAAAB, applied p[2]
\* times to p[1] (by halves, so that the evaluation stays shallow).
CRYPT_SEED == 1048577
CRYPT_MODULUS == 2796203

SeedAfter[p \in Nat \X Nat] ==
  IF p[2] = 0 THEN p[1]
  ELSE IF p[2] = 1 THEN (p[1] * 125 + 3) % CRYPT_MODULUS
  ELSE SeedAfter[<<SeedAfter[<<p[1], p[2] \div 2>>], p[2] - (p[2] \div 2)>>]

\* CRYPT_TABLE[idx], idx = i + j * 0x100: the loop reaches (i, j) after
\* 2 * (5 * i + j) steps of the seed; tmp1 is the next seed's low half shifted
\* into the high half, tmp2 the low half of the seed after it.
CRYPT_TABLE(idx) ==
  LET i == idx % 256
      j == idx \div 256
      n == 2 * (5 * i + j)
  IN U32(SeedAfter[<<CRYPT_SEED, n + 1>>] % Half, SeedAfter[<<CRYPT_SEED, n + 2>>] % Half)

\* Keys are strings, held as sequences of character codes 0..255.
normalize_char(c) == IF c >= 97 /\ c <= 122 THEN c - 32 ELSE c

\* keys_equal without the normalisation: a case-sensitive comparison.
keys_equal_exact(a, b) == a = b

keys_equal(a, b) ==
  /\ Len(a) = Len(b)
  /\ \A i \in 1..Len(a) : normalize_char(a[i]) = normalize_char(b[i])

\* One round of one hash variant (0 offset, 1 A, 2 B) on seeds <<seed1, seed2>>.
HashRound(seeds, uc, variant) ==
  LET seed1 == Xor32(CRYPT_TABLE(variant * 256 + uc), Add32(seeds[1], seeds[2]))
      seed2 == Add32(Add32(Add32(Add32(U32(0, uc), seed1), seeds[2]), Shl5(seeds[2])), U32(0, 3))
  IN <<seed1, seed2>>

SEED1_0 == U32(32749, 32749)
SEED2_0 == U32(54093, 4300)

RECURSIVE HashLoop(_, _, _)
HashLoop(s, seeds, variant) ==
  IF s = <<>> THEN seeds[1]
  ELSE HashLoop(Tail(s), HashRound(seeds, normalize_char(Head(s)), variant), variant)

mpq_hash_all(s) ==
  [offset |-> HashLoop(s, <<SEED1_0, SEED2_0>>, 0),
   a      |-> HashLoop(s, <<SEED1_0, SEED2_0>>, 1),
   b      |-> HashLoop(s, <<SEED1_0, SEED2_0>>, 2)]

\* The keys put and looked up: "", "a", "A", "b", "ab", "c", "ba", "bb"; the
\* first MaxKeys of them where the values put vary, all of them where only the
\* number of entries matters.
KeyList == <<<<>>, <<97>>, <<65>>, <<98>>, <<97, 98>>, <<99>>, <<98, 97>>, <<98, 98>>>>
KeysUpTo(n) == {KeyList[i] : i \in 1..Min({n, Len(KeyList)})}
KeyStrings == KeysUpTo(Len(KeyList))
MaxKeys == 4
MaxValue == 2
Values == 1..MaxValue

\* mpq_hash_all(key), tabulated once for the keys in use.
HashOf == [key \in KeyStrings |-> mpq_hash_all(key)]

\* Node<T>{}: an unused bucket.
EmptyNode == [occupied |-> FALSE, h_a |-> U32(0, 0), h_b |-> U32(0, 0), key |-> <<>>, value |-> 0]

\* A table: _size, _elements, _buckets (indexed 0 .. _size - 1).
Table(size, elements, buckets) == [size |-> size, elements |-> elements, buckets |-> buckets]

\* HashTable(buckets): _size(buckets), _buckets(buckets), _elements{0}.
HashTable(buckets) == Table(buckets, 0, [i \in 0..(buckets - 1) |-> EmptyNode])

\* insert_impl from bucket idx on, probe buckets already visited; ok = FALSE
\* is the return after the loop ("table is full").
RECURSIVE InsertProbe(_, _, _, _, _, _)
InsertProbe(t, h, key, value, idx, probe) ==
  IF probe >= t.size THEN [t |-> t, ok |-> FALSE]
  ELSE LET node == t.buckets[idx] IN
    IF ~node.occupied
    THEN [t |-> [t EXCEPT !.buckets[idx] = [occupied |-> TRUE, h_a |-> h.a, h_b |-> h.b,
                                            key |-> key, value |-> value],
                          !.elements = @ + 1],
          ok |-> TRUE]
    ELSE IF node.h_a = h.a /\ node.h_b = h.b /\ keys_equal(node.key, key)
    THEN [t |-> [t EXCEPT !.buckets[idx].value = value], ok |-> TRUE]
    ELSE InsertProbe(t, h, key, value, (idx + 1) % t.size, probe + 1)

insert_impl(t, key, value) ==
  LET h == HashOf[key]
  IN InsertProbe(t, h, key, value, Mod32(h.offset, t.size), 0)

\* find_pos: <<idx>> when found, <<>> for std::nullopt.
RECURSIVE FindProbe(_, _, _, _, _)
FindProbe(t, h, key, idx, probe) ==
  IF probe >= t.size THEN <<>>
  ELSE LET node == t.buckets[idx] IN
    IF ~node.occupied THEN <<>>
    ELSE IF node.h_a = h.a /\ node.h_b = h.b /\ keys_equal(node.key, key) THEN <<idx>>
    ELSE FindProbe(t, h, key, (idx + 1) % t.size, probe + 1)

find_pos(t, key) ==
  IF t.size = 0 THEN <<>>
  ELSE LET h == HashOf[key] IN FindProbe(t, h, key, Mod32(h.offset, t.size), 0)

\* get: <<value>> when found, <<>> for std::nullopt.
get(t, key) ==
  LET pos == find_pos(t, key)
  IN IF pos = <<>> THEN <<>> ELSE <<t.buckets[pos[1]].value>>

\* rehash: the loop over old_buckets from index i on; ok = FALSE when an
\* insertion reported a full table.
RECURSIVE Reinsert(_, _, _, _)
Reinsert(old, i, t, ok) ==
  IF i >= old.size THEN [t |-> t, ok |-> ok]
  ELSE IF old.buckets[i].occupied
       THEN LET r == insert_impl(t, old.buckets[i].key, old.buckets[i].value)
            IN Reinsert(old, i + 1, r.t, ok /\ r.ok)
       ELSE Reinsert(old, i + 1, t, ok)

rehash(t, new_size) == Reinsert(t, 0, HashTable(new_size), TRUE)

\* MAX_LOAD_FACTOR = 0.7 as the fraction 7 / 10.  For the bucket counts below
\* 90 the double product _size * 0.7 compares with the integer _elements + 1
\* exactly as the fraction does.
MAX_LOAD_FACTOR_NUM == 7
MAX_LOAD_FACTOR_DEN == 10

\* static_cast<double>(_elements + 1) > _size * MAX_LOAD_FACTOR
ExceedsLoad(t) == (t.elements + 1) * MAX_LOAD_FACTOR_DEN > t.size * MAX_LOAD_FACTOR_NUM

\* put: the table after the call, the value returned and whether the "table
\* is full" end of insert_impl was reached (in put or inside rehash).
put(t, key, value) ==
  LET g == IF ExceedsLoad(t) THEN rehash(t, t.size * 2) ELSE [t |-> t, ok |-> TRUE]
      r == insert_impl(g.t, key, value)
  IN [t |-> r.t, ret |-> r.ok, full |-> ~g.ok \/ ~r.ok]

\* load_factor() < MAX_LOAD_FACTOR
LoadBelowMax(t) ==
  IF t.size = 0 THEN TRUE
  ELSE t.elements * MAX_LOAD_FACTOR_DEN < t.size * MAX_LOAD_FACTOR_NUM

\* Test 5's normalized_key: every character through normalize_char.
Normalized(key) == [i \in 1..Len(key) |-> normalize_char(key[i])]

\* ================================================================ my_minmax
\* Arrays of at most MaxLen elements 0 .. MaxElem; arr[i] of the code is At(arr, i).
MaxLen == 5
MaxElem == 2
Elems == 0..MaxElem
Vectors(from) == UNION {[1..len -> Elems] : len \in from..MaxLen}
At(arr, i) == arr[i + 1]

\* for (i = start; i < n - 1; i += 2): the pairs from index i on.
RECURSIVE minmax_loop(_, _, _, _)
minmax_loop(arr, i, min_val, max_val) ==
  IF ~(i < Len(arr) - 1) THEN <<min_val, max_val>>
  ELSE LET left  == At(arr, i)
           right == At(arr, i + 1)
       IN IF left < right
          THEN minmax_loop(arr, i + 2, IF left < min_val THEN left ELSE min_val,
                           IF right > max_val THEN right ELSE max_val)
          ELSE IF left > right
          THEN minmax_loop(arr, i + 2, IF right < min_val THEN right ELSE min_val,
                           IF left > max_val THEN left ELSE max_val)
          ELSE minmax_loop(arr, i + 2, min_val, max_val)

\* my_minmax: <<>> for std::nullopt, else the pair <<min, max>>.
my_minmax(arr) ==
  LET n == Len(arr) IN
  IF n = 0 THEN <<>>
  ELSE IF n = 1 THEN <<At(arr, 0), At(arr, 0)>>
  ELSE IF n % 2 = 1 THEN minmax_loop(arr, 1, At(arr, 0), At(arr, 0))
  ELSE IF At(arr, 0) < At(arr, 1) THEN minmax_loop(arr, 2, At(arr, 0), At(arr, 1))
  ELSE minmax_loop(arr, 2, At(arr, 1), At(arr, 0))

\* ============================================================== QuickSelect
\* std::swap(A[i], A[j]).
Swap(A, i, j) == [A EXCEPT ![i + 1] = A[j + 1], ![j + 1] = A[i + 1]]
SwapIf(c, A, i, j) == IF c THEN Swap(A, i, j) ELSE A

\* do { ++i; } while (i <= r && A[i] < pivot);  the value of i after it.
RECURSIVE ScanI(_, _, _, _)
ScanI(A, i, r, pivot) ==
  IF i + 1 <= r /\ At(A, i + 1) < pivot THEN ScanI(A, i + 1, r, pivot) ELSE i + 1

\* do { --j; } while (j >= l && A[j] > pivot);  the value of j after it.
RECURSIVE ScanJ(_, _, _, _)
ScanJ(A, j, l, pivot) ==
  IF j - 1 >= l /\ At(A, j - 1) > pivot THEN ScanJ(A, j - 1, l, pivot) ELSE j - 1

\* The Hoare loop without its std::swap(A[i], A[j]): it breaks after the
\* first pair of scans.
Partition_no_swap(A, i, j, l, r, pivot) == [A |-> A, j |-> ScanJ(A, j, l, pivot)]

\* The Hoare loop while (true) { scan; scan; if (i > j) break; swap; }:
\* the array and j when it breaks.
RECURSIVE Partition(_, _, _, _, _, _)
Partition(A, i, j, l, r, pivot) ==
  LET i1 == ScanI(A, i, r, pivot)
      j1 == ScanJ(A, j, l, pivot)
  IN IF i1 > j1 THEN [A |-> A, j |-> j1]
     ELSE Partition(Swap(A, i1, j1), i1, j1, l, r, pivot)

\* while (l < r) { ... } return A[k];  fuel bounds the iterations followed:
\* timeout reports that the loop was still running when it ran out.
RECURSIVE SelectLoop(_, _, _, _, _)
SelectLoop(A, l, r, k, fuel) ==
  IF ~(l < r) THEN [A |-> A, ret |-> At(A, k), timeout |-> FALSE]
  ELSE IF fuel = 0 THEN [A |-> A, ret |-> At(A, k), timeout |-> TRUE]
  ELSE IF r - l <= 1
  THEN LET A1 == SwapIf(At(A, l) > At(A, r), A, l, r)
       IN [A |-> A1, ret |-> At(A1, k), timeout |-> FALSE]
  ELSE LET mid   == l + ((r - l) \div 2)
           A1    == SwapIf(At(A, l) > At(A, mid), A, l, mid)
           A2    == SwapIf(At(A1, mid) > At(A1, r), A1, mid, r)
           A3    == SwapIf(At(A2, l) > At(A2, mid), A2, l, mid)
           A4    == Swap(A3, mid, l + 1)
           pivot == At(A4, l + 1)
           p     == Partition(A4, l + 1, r, l, r, pivot)
           A5    == [p.A EXCEPT ![l + 2] = At(p.A, p.j)]
           A6    == [A5 EXCEPT ![p.j + 1] = pivot]
       IN IF k < p.j THEN SelectLoop(A6, l, p.j - 1, k, fuel - 1)
          ELSE IF k > p.j THEN SelectLoop(A6, p.j + 1, r, k, fuel - 1)
          ELSE [A |-> A6, ret |-> At(A6, p.j), timeout |-> FALSE]

\* kth_element_inplace(A, k), 0 <= k < n: the vector after the call and the
\* value returned.  Every iteration shrinks [l, r], so n iterations suffice.
kth_element_inplace(A, k) == SelectLoop(A, 0, Len(A) - 1, k, Len(A))

\* kth_element(A, k): copy = A; return kth_element_inplace(copy, k).
kth_element(A, k) ==
  LET copy == A
      r    == kth_element_inplace(copy, k)
  IN [A |-> A, ret |-> r.ret, timeout |-> r.timeout]

\* =================================================================== BKTree
\* The words inserted and looked up: "", "a", "ab", "abb", "b", "ba", "bab";
\* the first MaxWords of them.
WordList == <<<<>>, <<97>>, <<97, 98>>, <<97, 98, 98>>, <<98>>, <<98, 97>>, <<98, 97, 98>>>>
MaxWords == 6
Words == {WordList[i] : i \in 1..Min({MaxWords, Len(WordList)})}

\* One row of levenshtein_distance: curr[1 .. n] from prev, for character bj
\* of b; curr holds curr[0 .. i - 1] (curr[i] of the code is At(curr, i)).
RECURSIVE LevRow(_, _, _, _, _)
LevRow(prev, a, bj, i, curr) ==
  IF i > Len(a) THEN curr
  ELSE LET cost == IF At(a, i - 1) = bj THEN 0 ELSE 1
       IN LevRow(prev, a, bj, i + 1,
                 Append(curr, Min({At(prev, i) + 1, At(curr, i - 1) + 1, At(prev, i - 1) + cost})))

\* for (j = 1; j <= m; ++j) { curr[0] = j; ...; std::swap(prev, curr); }
RECURSIVE LevRows(_, _, _, _)
LevRows(prev, a, b, j) ==
  IF j > Len(b) THEN prev
  ELSE LevRows(LevRow(prev, a, At(b, j - 1), 1, <<j>>), a, b, j + 1)

\* Utility::levenshtein_distance: a is the shorter string (s2 on a tie).
levenshtein_distance(s1, s2) ==
  LET a == IF Len(s1) < Len(s2) THEN s1 ELSE s2
      b == IF Len(s1) < Len(s2) THEN s2 ELSE s1
  IN At(LevRows([i \in 1..(Len(a) + 1) |-> i - 1], a, b, 1), Len(a))

\* levenshtein_distance, tabulated once for the words in use.
DistOf == [p \in Words \X Words |-> levenshtein_distance(p[1], p[2])]

\* A node of the tree and the node at a path.
TreeNode(path, word) == [path |-> path, word |-> word]
NodeOn(T, path) == CHOOSE node \in T : node.path = path
Paths(T) == {node.path : node \in T}

\* node->children of the node at path: the distances d that have a child.
Children(T, path) ==
  {q[Len(q)] : q \in {c \in Paths(T) : /\ Len(c) = Len(path) + 1
                                      /\ SubSeq(c, 1, Len(path)) = path}}

\* insert_node(node, word), node given by its path: the tree and node_count_.
RECURSIVE insert_node(_, _, _, _)
insert_node(T, count, path, word) ==
  LET dist == DistOf[<<NodeOn(T, path).word, word>>]
  IN IF dist = 0 THEN [T |-> T, count |-> count]
     ELSE IF dist \in Children(T, path)
     THEN insert_node(T, count, Append(path, dist), word)
     ELSE [T |-> T \cup {TreeNode(Append(path, dist), word)}, count |-> count + 1]

\* BKTree::insert.
bk_insert(T, count, word) ==
  IF T = {} THEN [T |-> {TreeNode(<<>>, word)}, count |-> count + 1]
  ELSE insert_node(T, count, <<>>, word)

INT_MAX == 2147483647

\* The pruning test with the upper bound dist in place of dist + best_dist.
Visited_upper_dist(d, dist, best_dist) == ~(d < dist - best_dist \/ d > dist)

\* if (d < lower || d > upper) continue;  with lower = dist - best_dist and
\* upper = dist + best_dist: the child at distance d is visited.
Visited(d, dist, best_dist) == ~(d < dist - best_dist \/ d > dist + best_dist)

\* The private find_closest_word(node, word, closest, best_dist) and its loop
\* over node->children (a std::map: ascending d); st = [closest, best_dist].
RECURSIVE find_node(_, _, _, _)
RECURSIVE find_children(_, _, _, _, _, _, _)
find_children(T, path, word, ds, dist, bound, st) ==
  IF ds = {} THEN st
  ELSE LET d == Min(ds)
       IN find_children(T, path, word, ds \ {d}, dist, bound,
                        IF Visited(d, dist, bound) THEN find_node(T, Append(path, d), word, st)
                        ELSE st)

find_node(T, path, word, st) ==
  LET dist == DistOf[<<NodeOn(T, path).word, word>>]
      st1  == IF dist < st.best_dist
              THEN [closest |-> NodeOn(T, path).word, best_dist |-> dist]
              ELSE st
      ds   == Children(T, path)
  IN find_children(T, path, word, ds, dist, st1.best_dist, st1)

\* The public find_closest_word: thrown for the std::runtime_error, else the
\* value returned and the two output parameters.
find_closest_word(T, word) ==
  IF T = {} THEN [thrown |-> TRUE, ret |-> FALSE, closest |-> <<>>, best_dist |-> 0]
  ELSE LET st == find_node(T, <<>>, word, [closest |-> <<>>, best_dist |-> INT_MAX])
       IN [thrown |-> FALSE, ret |-> st.best_dist # INT_MAX,
           closest |-> st.closest, best_dist |-> st.best_dist]

\* ================================================================= matrices
\* DynamicMatrix::Mat<int> (a vector of rows) and the fixed-size Mat<int, N, N>
\* (an array of rows), both held as a sequence of rows.  The matrices given
\* are square, of dimension 1..MaxDim, with entries in -1..MaxEntry; the
\* exponents are 0..MaxExp and the moduli 1..MaxMatMod.  With these inputs no
\* product or sum comes near the range of int, so int is held exactly.
MaxDim == 2
MaxEntry == 2
MaxExp == 3
MaxMatMod == 3

Entries == -1..MaxEntry
SquareMatrices == UNION {[1..n -> [1..n -> Entries]] : n \in 1..MaxDim}

\* What a call returns: it threw, or the matrix M.
Threw == [thrown |-> TRUE, M |-> <<>>]
Gave(M) == [thrown |-> FALSE, M |-> M]

\* DynamicMatrix::mod_reduce(x, mod) for mod > 0 (its callers have thrown
\* for mod <= 0 before they reach it): x %= mod; if (x < 0) x += mod.
mod_reduce(x, mod) ==
  LET x1 == CRem(x, mod)
  IN IF x1 < 0 THEN x1 + mod ELSE x1

\* DynamicMatrix::identity<T>(n): create(n, n, T{}), then I[i][i] = T(1).
DynamicMatrix_identity(n) == [i \in 1..n |-> [j \in 1..n |-> IF i = j THEN 1 ELSE 0]]

\* result[i][j] of the modular DynamicMatrix::mul after the terms 1..k:
\*   tmp = mod_reduce(A[i][k], mod);
\*   result[i][j] = mod_reduce(result[i][j] + tmp * B[k][j], mod)
RECURSIVE DynamicMatrix_mul_entry(_, _, _, _, _, _)
DynamicMatrix_mul_entry(A, B, mod, i, j, k) ==
  IF k = 0 THEN 0
  ELSE mod_reduce(DynamicMatrix_mul_entry(A, B, mod, i, j, k - 1)
                  + mod_reduce(A[i][k], mod) * B[k][j], mod)

\* DynamicMatrix::mul(A, B, mod) on matrices whose shapes agree.
DynamicMatrix_mul(A, B, mod) ==
  [i \in 1..Len(A) |-> [j \in 1..Len(B[1]) |->
     DynamicMatrix_mul_entry(A, B, mod, i, j, Len(B))]]

\* The while (e > 0) loop of the modular DynamicMatrix::pow.
RECURSIVE DynamicMatrix_pow_loop(_, _, _, _)
DynamicMatrix_pow_loop(result, base, e, mod) ==
  IF e = 0 THEN result
  ELSE DynamicMatrix_pow_loop(
         IF e % 2 = 1 THEN DynamicMatrix_mul(result, base, mod) ELSE result,
         DynamicMatrix_mul(base, base, mod), e \div 2, mod)

\* DynamicMatrix::pow(base, e, mod).
DynamicMatrix_pow(base, e, mod) ==
  IF mod <= 0 THEN Threw
  ELSE IF Len(base) = 0 \/ Len(base[1]) # Len(base) THEN Threw
  ELSE LET N       == Len(base)
           reduced == [i \in 1..N |-> [j \in 1..N |-> mod_reduce(base[i][j], mod)]]
       IN Gave(DynamicMatrix_pow_loop(DynamicMatrix_identity(N), reduced, e, mod))

\* Mat::mod_reduce for an integral T: assert(mod > 0); x %= mod;
\* if (x < 0) x += mod.
Mat_mod_reduce(x, mod) ==
  LET x1 == CRem(x, mod)
  IN IF x1 < 0 THEN x1 + mod ELSE x1

\* Mat::identity(): a value-initialized Mat, then I.A[i][i] = T(1).
Mat_identity(n) == [i \in 1..n |-> [j \in 1..n |-> IF i = j THEN 1 ELSE 0]]

\* res.A[i][j] of the modular Mat::mul after the terms 1..k:
\*   t = mod_reduce(A[i][k], mod);  p = mod_reduce(t * o.A[k][j], mod);
\*   res.A[i][j] = mod_reduce(res.A[i][j] + p, mod)
RECURSIVE Mat_mul_entry(_, _, _, _, _, _)
Mat_mul_entry(A, o, mod, i, j, k) ==
  IF k = 0 THEN 0
  ELSE LET t  == Mat_mod_reduce(A[i][k], mod)
           pr == Mat_mod_reduce(t * o[k][j], mod)
       IN Mat_mod_reduce(Mat_mul_entry(A, o, mod, i, j, k - 1) + pr, mod)

\* Mat::mul(o, mod).
Mat_mul(A, o, mod) ==
  [i \in 1..Len(A) |-> [j \in 1..Len(o[1]) |-> Mat_mul_entry(A, o, mod, i, j, Len(o))]]

\* The while (e != 0) loop of the modular Mat::pow.
RECURSIVE Mat_pow_loop(_, _, _, _)
Mat_pow_loop(result, base, e, mod) ==
  IF e = 0 THEN result
  ELSE Mat_pow_loop(IF e % 2 = 1 THEN Mat_mul(result, base, mod) ELSE result,
                    Mat_mul(base, base, mod), e \div 2, mod)

\* Mat::pow(e, mod) of the matrix A (noexcept: it never throws).
Mat_pow(A, e, mod) ==
  LET N    == Len(A)
      base == [i \in 1..N |-> [j \in 1..N |-> Mat_mod_reduce(A[i][j], mod)]]
  IN Gave(Mat_pow_loop(Mat_identity(N), base, e, mod))

\* ------------------------------------------------------------ state machine
\* s_, n_: the fields of ChthollyTree.  ub: a call misused an iterator, the
\* program's state is undefined from there.  built: build has been called.
\* misused: the caller passed arguments outside the interface's
\* preconditions since the last build.  last: the last call, its arguments,
\* the set before it, its two splits and its result, until the call returns
\* (a build records its array and the length before it only: it reads
\* nothing of the old set).
\* seq holds the records of the earlier calls of a back-to-back sequence of
\* calls on the same range (empty when the call in last stands alone).
VARIABLES s_, n_, ub, built, misused, last, seq

\* MPQ::HashTable<int>: its three members; ref is the std::unordered_map the
\* stress test fills beside it, put_ret the value the last put returned, full
\* whether insert_impl has reached its "table is full" end.
VARIABLES _size, _elements, _buckets, ref, put_ret, full

\* my_minmax: the array passed and what the call returned.
VARIABLES mm_arr, mm_result

\* QuickSelect: the caller's vector before the call (qs_in) and after it
\* (qs_A), the index k, and what the call returned.
VARIABLES qs_in, qs_A, qs_k, qs_ret

\* BKTree: its two members.  root_ is the set of the nodes of the tree, each
\* with its path from the root (the edit distances on the edges to it); the
\* empty set is the null root_.
VARIABLES root_, node_count_

\* mulmod_ and qpow_ called on their own (powsum is their one caller): the
\* arguments a, b (the exponent of qpow_) and mod, and what the call returned
\* (ret), in one record.
VARIABLES ar_call

\* Modular matrix pow: the matrix (base), the exponent (e) and the modulus
\* (mod) passed, and what the call returned (ret), in one record.
VARIABLES mx_call

ct_vars == <<s_, n_, ub, built, misused, last, seq>>
ht_vars == <<_size, _elements, _buckets, ref, put_ret, full>>
mm_vars == <<mm_arr, mm_result>>
qs_vars == <<qs_in, qs_A, qs_k, qs_ret>>
bk_vars == <<root_, node_count_>>
ar_vars == <<ar_call>>
mx_vars == <<mx_call>>
vars == <<ct_vars, ht_vars, mm_vars, qs_vars, bk_vars, ar_vars, mx_vars>>

\* The values of each program's variables while that program does not run.
HashIdle ==
  /\ _size = 0
  /\ _elements = 0
  /\ _buckets = <<>>
  /\ ref = <<>>
  /\ put_ret = TRUE
  /\ full = FALSE

\* No call made yet; Returned(op, value, timeout) once op has returned.
NotCalled == [op |-> "none", value |-> <<>>, timeout |-> FALSE]
Returned(op, value, timeout) == [op |-> op, value |-> value, timeout |-> timeout]

MinmaxIdle ==
  /\ mm_arr = <<>>
  /\ mm_result = NotCalled

SelectIdle ==
  /\ qs_in = <<>>
  /\ qs_A = <<>>
  /\ qs_k = 0
  /\ qs_ret = NotCalled

\* BKTree() = default: no root, node_count_{0}.
BKIdle ==
  /\ root_ = {}
  /\ node_count_ = 0

ArithIdle == ar_call = [a |-> 0, b |-> 0, mod |-> 1, ret |-> NotCalled]

MatrixIdle == mx_call = [base |-> <<>>, e |-> 0, mod |-> 1, ret |-> NotCalled]

\* The variables of the programs other than ChthollyTree.
others == <<ht_vars, mm_vars, qs_vars, bk_vars, ar_vars, mx_vars>>
OthersIdle == HashIdle /\ MinmaxIdle /\ SelectIdle /\ BKIdle /\ ArithIdle /\ MatrixIdle

NoSplits == Splits({}, 0, 0, 0)

\* a is the array a build was given (empty for the other calls).
Call(op, l, r, x, y, k, o) ==
  [op |-> op, l |-> l, r |-> r, x |-> x, y |-> y, k |-> k, a |-> <<>>,
   pre |-> s_, pre_n |-> n_, sp |-> o.sp, ret |-> o.ret, ovf |-> o.ovf]

\* No call is in progress and no result is held by the caller.
Idle ==
  [op |-> "idle", l |-> 0, r |-> 0, x |-> 0, y |-> 0, k |-> 0, a |-> <<>>,
   pre |-> {}, pre_n |-> 0, sp |-> NoSplits, ret |-> 0, ovf |-> FALSE]

\* ChthollyTree() = default: an empty set, n_ = 0.
ChthollyInit ==
  /\ s_ = {}
  /\ n_ = 0
  /\ ub = FALSE
  /\ built = FALSE
  /\ misused = FALSE
  /\ last = Idle
  /\ seq = <<>>

Init == ChthollyInit /\ OthersIdle

\* The interface's precondition on a range: 0 <= l <= r < n.
ValidRange(l, r) == 0 <= l /\ l <= r /\ r < n_

\* The arrays build is given: length from..MaxN, elements in Vals.
Arrays(from) == UNION {[1..len -> Vals] : len \in from..MaxN}

\* The caller makes one call at a time, on a live structure; after a call
\* outside the interface's preconditions it makes no further call but build.
Callable == ~ub /\ ~misused /\ last.op = "idle"

Build(a) ==
  /\ ~ub
  /\ last.op = "idle"
  /\ s_' = build(s_, a)
  /\ n_' = Len(a)
  /\ built' = TRUE
  /\ misused' = FALSE
  /\ last' = [Idle EXCEPT !.op = "build", !.a = a, !.pre_n = n_]
  /\ UNCHANGED <<ub, seq, others>>

\* The effect of a range operation with outcome o.
Apply(op, l, r, x, y, k, ok, o) ==
  /\ s_' = o.s
  /\ ub' = o.ub
  /\ misused' = ~ok
  /\ last' = Call(op, l, r, x, y, k, o)
  /\ UNCHANGED <<n_, built, others>>

\* A call that stands alone, or is the first of a sequence.
Effect(op, l, r, x, y, k, ok, o) ==
  /\ Apply(op, l, r, x, y, k, ok, o)
  /\ UNCHANGED seq

\* A call made directly after the call in last, on the same range.
Follow(op, x, k, o) ==
  /\ Apply(op, last.l, last.r, x, 0, k, TRUE, o)
  /\ seq' = Append(seq, last)

\* Stored values stay in Vals (the cap that keeps the model finite).
Add(l, r, x) ==
  /\ Callable
  /\ \E o \in add(s_, n_, l, r, x) :
       /\ \A m \in o.s : m.v \in Vals
       /\ Effect("add", l, r, x, 0, 0, ValidRange(l, r), o)

Assign(l, r, x) ==
  /\ Callable
  /\ \E o \in assign(s_, n_, l, r, x) :
       Effect("assign", l, r, x, 0, 0, ValidRange(l, r), o)

Kth(l, r, k) ==
  /\ Callable
  /\ \E o \in kth(s_, n_, l, r, k) :
       Effect("kth", l, r, 0, 0, k, ValidRange(l, r) /\ k >= 1, o)

Powsum(l, r, x, y) ==
  /\ Callable
  /\ \E o \in powsum(s_, n_, l, r, x, y) :
       Effect("powsum", l, r, x, y, 0, ValidRange(l, r) /\ x >= 0 /\ y > 0, o)

\* The call has returned: the caller consumes the result (the driver prints
\* it) and goes on to its next call.
Return ==
  /\ ~ub
  /\ last.op # "idle"
  /\ last' = Idle
  /\ seq' = <<>>
  /\ UNCHANGED <<s_, n_, ub, built, misused, others>>

\* Spec: build with n >= 1 and calls that satisfy the interface's preconditions.
Idx == 0..(MaxN - 1)
Ranks == 1..(MaxN + 1)

Next ==
  \/ \E a \in Arrays(1) : Build(a)
  \/ \E l, r \in Idx : ValidRange(l, r) /\ \E x \in Deltas : Add(l, r, x)
  \/ \E l, r \in Idx : ValidRange(l, r) /\ \E x \in Vals : Assign(l, r, x)
  \/ \E l, r \in Idx : ValidRange(l, r) /\ \E k \in Ranks : Kth(l, r, k)
  \/ \E l, r \in Idx : ValidRange(l, r) /\ \E x \in Exps, y \in Mods : Powsum(l, r, x, y)
  \/ Return

Spec == Init /\ [][Next]_vars

\* SpecAny: build with n >= 0 and calls with any arguments.
AnyIdx == -1..MaxN
AnyRanks == 0..(MaxN + 1)
AnyMods == (-2..0) \cup Mods

NextAny ==
  \/ \E a \in Arrays(0) : Build(a)
  \/ \E l, r \in AnyIdx, x \in Deltas : Add(l, r, x)
  \/ \E l, r \in AnyIdx, x \in Vals : Assign(l, r, x)
  \/ \E l, r \in AnyIdx, k \in AnyRanks : Kth(l, r, k)
  \/ \E l, r \in AnyIdx, x \in Exps, y \in AnyMods : Powsum(l, r, x, y)
  \/ Return

SpecAny == Init /\ [][NextAny]_vars

\* SpecRepeat: build with n >= 1, valid add, assign and kth calls, and calls
\* that follow one another on the same range: add(l,r,x) then add(l,r,-x),
\* assign(l,r,x) twice, and kth(l,r,k) for k = 1, 2, ..., r - l + 1.
Following(op) == ~ub /\ ~misused /\ last.op = op

AddBack ==
  /\ Following("add")
  /\ seq = <<>>
  /\ \E o \in add(s_, n_, last.l, last.r, -last.x) :
       /\ \A m \in o.s : m.v \in Vals
       /\ Follow("add", -last.x, 0, o)

AssignAgain ==
  /\ Following("assign")
  /\ seq = <<>>
  /\ \E o \in assign(s_, n_, last.l, last.r, last.x) :
       Follow("assign", last.x, 0, o)

KthNext ==
  /\ Following("kth")
  /\ last.k = Len(seq) + 1
  /\ last.k < last.r - last.l + 1
  /\ \E o \in kth(s_, n_, last.l, last.r, last.k + 1) :
       Follow("kth", 0, last.k + 1, o)

NextRepeat ==
  \/ \E a \in Arrays(1) : Build(a)
  \/ \E l, r \in Idx : ValidRange(l, r) /\ \E x \in Deltas : Add(l, r, x)
  \/ \E l, r \in Idx : ValidRange(l, r) /\ \E x \in Vals : Assign(l, r, x)
  \/ \E l, r \in Idx : ValidRange(l, r) /\ \E k \in Ranks : Kth(l, r, k)
  \/ AddBack
  \/ AssignAgain
  \/ KthNext
  \/ Return

SpecRepeat == Init /\ [][NextRepeat]_vars

\* SpecSplit: split_ applied once, at any position, to any partition the
\* structure can hold (each is what build and one assign per interval leave).
PartitionOf(n, cuts, f) ==
  LET starts == {0} \cup cuts
      endOf(s) == IF \E c \in starts : c > s
                  THEN Min({c \in starts : c > s}) - 1
                  ELSE n - 1
  IN {Node(s, endOf(s), f[s]) : s \in starts}

Partitions(n) ==
  IF n = 0 THEN {{}}
  ELSE {PartitionOf(n, cuts, f) : cuts \in SUBSET (1..(n - 1)), f \in [0..(n - 1) -> Vals]}

InitSplit ==
  /\ n_ \in 0..MaxN
  /\ s_ \in Partitions(n_)
  /\ ub = FALSE
  /\ built = TRUE
  /\ misused = FALSE
  /\ last = Idle
  /\ seq = <<>>
  /\ OthersIdle

\* One call of split_(pos), as the first statement of a range operation makes it.
SplitCall(pos) ==
  /\ ~ub
  /\ last.op = "idle"
  /\ LET h == split_(s_, n_, pos)
     IN /\ s_' = h.s
        /\ ub' = h.ub
        /\ last' = [Idle EXCEPT !.op = "split", !.l = pos, !.pre = s_, !.pre_n = n_,
                                !.sp = [s1 |-> h.s, itr |-> h.it, s2 |-> h.s, itl |-> h.it,
                                        ub |-> h.ub, dangling |-> FALSE]]
  /\ UNCHANGED <<n_, built, misused, seq, others>>

Positions == -1..(MaxN + 1)

NextSplit ==
  \/ \E pos \in Positions : SplitCall(pos)
  \/ Return

SpecSplit == InitSplit /\ [][NextSplit]_vars

\* SpecHash: a table constructed with 1 .. MaxBuckets buckets, then puts of the
\* first MaxKeys keys with any values.  SpecHashLoad: the same table, then puts
\* of all the keys with one value.
MaxBuckets == 5
TableNow == Table(_size, _elements, _buckets)

InitHash ==
  /\ ChthollyInit /\ MinmaxIdle /\ SelectIdle /\ BKIdle /\ ArithIdle /\ MatrixIdle
  /\ \E buckets \in 1..MaxBuckets :
       /\ _size = HashTable(buckets).size
       /\ _elements = HashTable(buckets).elements
       /\ _buckets = HashTable(buckets).buckets
  /\ ref = <<>>
  /\ put_ret = TRUE
  /\ full = FALSE

\* ref[normalized_key] = v; mpq_table.put(key, v)
Put(key, v) ==
  /\ ~full
  /\ LET o  == put(TableNow, key, v)
         nk == Normalized(key)
     IN /\ _size' = o.t.size
        /\ _elements' = o.t.elements
        /\ _buckets' = o.t.buckets
        /\ put_ret' = o.ret
        /\ full' = o.full
        /\ ref' = [k \in DOMAIN ref \cup {nk} |-> IF k = nk THEN v ELSE ref[k]]
  /\ UNCHANGED <<ct_vars, mm_vars, qs_vars, bk_vars, ar_vars, mx_vars>>

NextHash == \E key \in KeysUpTo(MaxKeys), v \in Values : Put(key, v)

SpecHash == InitHash /\ [][NextHash]_vars

NextHashLoad == \E key \in KeyStrings : Put(key, 1)

SpecHashLoad == InitHash /\ [][NextHashLoad]_vars

\* SpecMinmax: my_minmax called once on any array.
InitMinmax ==
  /\ ChthollyInit /\ HashIdle /\ SelectIdle /\ BKIdle /\ ArithIdle /\ MatrixIdle
  /\ mm_arr \in Vectors(0)
  /\ mm_result = NotCalled

Minmax ==
  /\ mm_result.op = "none"
  /\ mm_result' = Returned("my_minmax", my_minmax(mm_arr), FALSE)
  /\ UNCHANGED <<mm_arr, ct_vars, ht_vars, qs_vars, bk_vars, ar_vars, mx_vars>>

NextMinmax == Minmax

SpecMinmax == InitMinmax /\ [][NextMinmax]_vars

\* SpecSelect: one call of kth_element_inplace or kth_element on any non-empty
\* vector and any k in [0, n).
InitSelect ==
  /\ ChthollyInit /\ HashIdle /\ MinmaxIdle /\ BKIdle /\ ArithIdle /\ MatrixIdle
  /\ qs_in \in Vectors(1)
  /\ qs_A = qs_in
  /\ qs_k \in 0..(Len(qs_in) - 1)
  /\ qs_ret = NotCalled

SelectCall(op, o) ==
  /\ qs_ret.op = "none"
  /\ qs_A' = o.A
  /\ qs_ret' = Returned(op, o.ret, o.timeout)
  /\ UNCHANGED <<qs_in, qs_k, ct_vars, ht_vars, mm_vars, bk_vars, ar_vars, mx_vars>>

KthElementInplace == SelectCall("kth_element_inplace", kth_element_inplace(qs_A, qs_k))

KthElement == SelectCall("kth_element", kth_element(qs_A, qs_k))

NextSelect == KthElementInplace \/ KthElement

SpecSelect == InitSelect /\ [][NextSelect]_vars

\* SpecBK: an empty BKTree, then any inserts.
InitBK ==
  ChthollyInit /\ HashIdle /\ MinmaxIdle /\ SelectIdle /\ BKIdle /\ ArithIdle /\ MatrixIdle

Insert(word) ==
  /\ LET o == bk_insert(root_, node_count_, word)
     IN /\ root_' = o.T
        /\ node_count_' = o.count
  /\ UNCHANGED <<ct_vars, ht_vars, mm_vars, qs_vars, ar_vars, mx_vars>>

NextBK == \E word \in Words : Insert(word)

SpecBK == InitBK /\ [][NextBK]_vars

\* SpecArith: one call of mulmod_ or of qpow_ with any long long arguments
\* that meet the requirement stated above each (mod > 0, exp >= 0).
InitArith ==
  /\ ChthollyInit /\ HashIdle /\ MinmaxIdle /\ SelectIdle /\ BKIdle /\ MatrixIdle
  /\ ar_call \in [a : LL, b : LL, mod : 1..LLMax, ret : {NotCalled}]

ArithCall(op, o) ==
  /\ ar_call.ret.op = "none"
  /\ ar_call' = [ar_call EXCEPT !.ret = Returned(op, o, FALSE)]
  /\ UNCHANGED <<ct_vars, ht_vars, mm_vars, qs_vars, bk_vars, mx_vars>>

Mulmod == ArithCall("mulmod_", mulmod_(ar_call.a, ar_call.b, ar_call.mod))

Qpow == ar_call.b >= 0 /\ ArithCall("qpow_", qpow_(ar_call.a, ar_call.b, ar_call.mod))

NextArith == Mulmod \/ Qpow

SpecArith == InitArith /\ [][NextArith]_vars

\* SpecMatrix: one call of the modular pow, of DynamicMatrix or of Mat, on any
\* square matrix with any exponent and any modulus > 0.
InitMatrix ==
  /\ ChthollyInit /\ HashIdle /\ MinmaxIdle /\ SelectIdle /\ BKIdle /\ ArithIdle
  /\ mx_call \in [base : SquareMatrices, e : 0..MaxExp, mod : 1..MaxMatMod, ret : {NotCalled}]

MatrixCall(op, o) ==
  /\ mx_call.ret.op = "none"
  /\ mx_call' = [mx_call EXCEPT !.ret = Returned(op, o, FALSE)]
  /\ UNCHANGED <<ct_vars, ht_vars, mm_vars, qs_vars, bk_vars, ar_vars>>

DynamicPow ==
  MatrixCall("DynamicMatrix::pow", DynamicMatrix_pow(mx_call.base, mx_call.e, mx_call.mod))

FixedPow == MatrixCall("Mat::pow", Mat_pow(mx_call.base, mx_call.e, mx_call.mod))

NextMatrix == DynamicPow \/ FixedPow

SpecMatrix == InitMatrix /\ [][NextMatrix]_vars

\* ------------------------------------------------------------------ claims
RangeOps == {"add", "assign", "kth", "powsum"}

\* The values the intervals of S hold at index i (one value in a partition).
ValsAt(S, i) == {m.v : m \in {q \in S : q.l <= i /\ i <= q.r}}

\* The intervals of S, ordered by start, partition [0, n) exactly.
IsPartition(S, n) ==
  LET ns == NodeSeq(S, Keys(S))
  IN /\ Cardinality(Keys(S)) = Cardinality(S)
     /\ Len(ns) >= 1
     /\ ns[1].l = 0
     /\ ns[Len(ns)].r = n - 1
     /\ \A i \in 1..Len(ns) : ns[i].l <= ns[i].r
     /\ \A i \in 1..(Len(ns) - 1) : ns[i + 1].l = ns[i].r + 1

\* The last call's range and the indices in it.
InRange(i) == last.l <= i /\ i <= last.r
RangeLen == last.r - last.l + 1

\* C1: after build with n >= 1 and any sequence of calls with valid
\* arguments, the stored intervals partition [0, n) exactly: start <= end,
\* unique ascending starts, the first starts at 0, the last ends at n - 1 and
\* each next start is the previous end plus one.
C1_PartitionInvariant == (built /\ n_ >= 1) => IsPartition(s_, n_)

\* C1 witness: a call cut one interval spanning [0, n) into three.
C1_Witness ==
  /\ last.op \in RangeOps
  /\ Cardinality(last.pre) = 1
  /\ Cardinality(s_) = 3
  /\ IsPartition(s_, n_)

\* C2: after assign(l, r, x) every index in [l, r] holds x and every other
\* index holds what it held before the call.
C2_AssignValues ==
  last.op = "assign" =>
    \A i \in 0..(n_ - 1) :
      ValsAt(s_, i) = IF InRange(i) THEN {last.x} ELSE ValsAt(last.pre, i)

\* C2 witness: an assign over several intervals, one of which held another value.
C2_Witness ==
  /\ last.op = "assign"
  /\ last.l < last.r
  /\ Cardinality(s_) < Cardinality(last.pre)
  /\ \E i \in last.l..last.r : ValsAt(last.pre, i) # {last.x}
  /\ \E i \in 0..(n_ - 1) : ~InRange(i) /\ ValsAt(s_, i) # {last.x}

\* C3: after add(l, r, x) every index in [l, r] holds its previous value plus
\* x and every other index is unchanged.
C3_AddValues ==
  last.op = "add" =>
    \A i \in 0..(n_ - 1) :
      ValsAt(s_, i) = {v + (IF InRange(i) THEN last.x ELSE 0) : v \in ValsAt(last.pre, i)}

\* C3 witness: an add strictly inside a single interval (both splits cut it).
C3_Witness ==
  /\ last.op = "add"
  /\ 0 < last.l
  /\ last.r < n_ - 1
  /\ Cardinality(last.pre) = 1
  /\ Cardinality(s_) = 3

\* The values of the indices of [l, r] before the last call that are below v,
\* and at most v.
Below(v) == {i \in last.l..last.r : \A w \in ValsAt(last.pre, i) : w < v}
AtMost(v) == {i \in last.l..last.r : \A w \in ValsAt(last.pre, i) : w <= v}

\* C4: for 1 <= k <= r - l + 1, kth(l, r, k) returns element k (1-based) of
\* the values at indices l..r sorted ascending: a value of the range with
\* fewer than k values below it and at least k values at most it.
C4_KthSmallest ==
  (last.op = "kth" /\ 1 <= last.k /\ last.k <= RangeLen) =>
    /\ \E i \in last.l..last.r : ValsAt(last.pre, i) = {last.ret}
    /\ Cardinality(Below(last.ret)) < last.k
    /\ last.k <= Cardinality(AtMost(last.ret))

\* C4 witness: a rank past the smallest value, over a range cut into an
\* interval of length 2 and another interval.
C4_Witness ==
  /\ last.op = "kth"
  /\ last.k >= 2
  /\ last.k <= RangeLen
  /\ Below(last.ret) # {}
  /\ \E m \in s_ : m.l >= last.l /\ m.r <= last.r /\ m.r > m.l
  /\ Cardinality({m \in s_ : m.l >= last.l /\ m.r <= last.r}) >= 2

\* The exact power b^e and the exact sum of a[i]^x over i..j, a being the
\* values before the last call.
RECURSIVE Pow(_, _)
Pow(b, e) == IF e = 0 THEN 1 ELSE b * Pow(b, e - 1)

ValAt(S, i) == CHOOSE v \in ValsAt(S, i) : TRUE

RECURSIVE SumPow(_, _, _)
SumPow(i, j, x) == IF i > j THEN 0 ELSE Pow(ValAt(last.pre, i), x) + SumPow(i + 1, j, x)

\* C5: for x >= 0 and y > 0, powsum(l, r, x, y) returns the sum over [l, r]
\* of a[i]^x reduced into [0, y), also for negative values and values above y.
C5_PowsumValue ==
  (last.op = "powsum" /\ ~ub) =>
    last.ret = SumPow(last.l, last.r, last.x) % last.y

\* C5, where the code meets it: the calls whose arithmetic stays inside long long.
C5_PowsumValueWithoutOverflow ==
  (last.op = "powsum" /\ ~last.ovf) =>
    (~ub /\ last.ret = SumPow(last.l, last.r, last.x) % last.y)

\* C6: for k > r - l + 1, kth(l, r, k) returns -1 and leaves the value of
\* every index as it was.
C6_KthInvalidRank ==
  (last.op = "kth" /\ last.k > RangeLen) =>
    /\ last.ret = -1
    /\ \A i \in 0..(n_ - 1) : ValsAt(s_, i) = ValsAt(last.pre, i)

\* C6 witness: a rank above the range's length, on a range whose boundary
\* splits cut an interval and whose values are all different from -1.
C6_Witness ==
  /\ last.op = "kth"
  /\ last.k > RangeLen
  /\ s_ # last.pre
  /\ \A i \in last.l..last.r : -1 \notin ValsAt(s_, i)
  /\ last.ret = -1

\* What C7 says of one split_(pos) that took the set S to T and returned it.
SplitContract(S, n, pos, T, it) ==
  (0 < pos /\ pos < n /\ IsPartition(S, n)) =>
    /\ it = It(pos)
    /\ pos \in Keys(T)
    /\ pos \in Keys(S) => T = S
    /\ pos \notin Keys(S) =>
         \E m \in S :
           /\ m.l < pos /\ pos <= m.r
           /\ T = (S \ {m}) \cup {Node(m.l, pos - 1, m.v), Node(pos, m.r, m.v)}
    /\ \A i \in 0..(n - 1) : ValsAt(T, i) = ValsAt(S, i)
    /\ IsPartition(T, n)

\* C7: for 0 < pos < n on a partition, split(pos) returns the interval that
\* starts at pos; an interval that already starts there leaves the set
\* unchanged, otherwise the one interval containing pos is replaced by
\* [start, pos-1, value] and [pos, end, value]; values and coverage are kept.
\* Stated of the two splits of every range operation.
C7_SplitContract ==
  last.op \in RangeOps =>
    /\ SplitContract(last.pre, last.pre_n, last.r + 1, last.sp.s1, last.sp.itr)
    /\ SplitContract(last.sp.s1, last.pre_n, last.l, last.sp.s2, last.sp.itl)

\* C7 witness: the split at r + 1 cut an interval and the split at l found
\* an interval that starts at l already.
C7_Witness ==
  /\ last.op \in RangeOps
  /\ 0 < last.l
  /\ last.r + 1 < last.pre_n
  /\ last.sp.s1 # last.pre
  /\ last.sp.s2 = last.sp.s1
  /\ last.sp.itl = It(last.l)

\* C8: split(pos) with pos <= 0 returns the first interval, split(pos) with
\* pos >= n returns the past-the-end marker, and in both cases the interval
\* set is left exactly as it was.
C8_SplitOutside ==
  last.op = "split" =>
    /\ (last.l <= 0 /\ last.pre # {}) =>
         /\ ~last.sp.itr.atEnd
         /\ last.sp.itr.l \in Keys(last.pre)
         /\ \A k \in Keys(last.pre) : last.sp.itr.l <= k
    /\ last.l >= last.pre_n => last.sp.itr.atEnd
    /\ (last.l <= 0 \/ last.l >= last.pre_n) => (s_ = last.pre /\ ~ub)

\* C8 witness: a split beyond n on a set of several intervals.
C8_Witness ==
  /\ last.op = "split"
  /\ last.l > last.pre_n
  /\ Cardinality(last.pre) >= 2
  /\ last.sp.itr.atEnd
  /\ s_ = last.pre

\* C9: a range operation called on a built structure (n >= 1) with l > r,
\* l < 0 or r >= n is rejected before any mutation: no split, removal or
\* insertion happens, the interval set is the same before and after, and the
\* partition invariant still holds.
C9_InvalidRangeRejected ==
  (/\ last.op \in RangeOps
   /\ last.pre_n >= 1
   /\ (last.l > last.r \/ last.l < 0 \/ last.r >= last.pre_n)) =>
    /\ last.sp.s1 = last.pre
    /\ last.sp.s2 = last.pre
    /\ s_ = last.pre
    /\ IsPartition(s_, n_)

\* C10: after build([]) every range operation with any arguments is rejected
\* or is a no-op: the partition stays empty and no undefined access occurs.
C10_EmptyStaysEmpty == (built /\ n_ = 0) => (s_ = {} /\ ~ub)

\* C11: powsum called with a modulus y <= 0 is rejected explicitly: the call
\* returns no ordinary numeric result and makes no split or other change to
\* the interval set.  Stated of the calls on a built structure whose range
\* is valid.
C11_BadModulusRejected ==
  (/\ last.op = "powsum"
   /\ last.y <= 0
   /\ 0 <= last.l /\ last.l <= last.r /\ last.r < last.pre_n) =>
    /\ ub
    /\ last.sp.s1 = last.pre
    /\ last.sp.s2 = last.pre
    /\ s_ = last.pre

\* The calls of the sequence in progress, oldest first, and their results.
Calls == Append(seq, last)
Rets == [i \in 1..Len(Calls) |-> Calls[i].ret]

\* C12: add(l, r, x) directly followed by add(l, r, -x), neither overflowing,
\* leaves every position with the value it had before the first add (the
\* intervals stay split), and the second add splits nothing further.
C12_AddThenSubtract ==
  (last.op = "add" /\ Len(seq) = 1) =>
    /\ ~ub
    /\ seq[1].op = "add" /\ last.l = seq[1].l /\ last.r = seq[1].r /\ last.x = -seq[1].x
    /\ \A i \in 0..(n_ - 1) : ValsAt(s_, i) = ValsAt(seq[1].pre, i)
    /\ last.sp.s2 = last.pre
    /\ Keys(s_) = Keys(seq[1].sp.s2)

C12_Witness ==
  /\ last.op = "add" /\ Len(seq) = 1
  /\ seq[1].sp.s2 # seq[1].pre
  /\ last.l < last.r
  /\ Cardinality(s_) = MaxN
  /\ s_ # seq[1].pre

\* C13: assign(l, r, x) directly followed by the same assign leaves the
\* interval set exactly as the first assign left it.
C13_AssignIdempotent ==
  (last.op = "assign" /\ Len(seq) = 1) =>
    /\ ~ub
    /\ seq[1].op = "assign" /\ last.l = seq[1].l /\ last.r = seq[1].r /\ last.x = seq[1].x
    /\ s_ = last.pre

C13_Witness ==
  /\ last.op = "assign" /\ Len(seq) = 1
  /\ seq[1].sp.s2 # seq[1].pre
  /\ last.pre # seq[1].pre
  /\ last.l < last.r
  /\ Cardinality(s_) > 1
  /\ last.x # 0

\* C14: kth(l, r, k) called for k = 1, 2, ... one after another on a fixed
\* structure returns a non-decreasing sequence, and once k has reached
\* r - l + 1 the results are exactly the multiset of the values of [l, r].
KthChain == last.op = "kth" /\ last.k = Len(seq) + 1

C14_KthSequence ==
  KthChain =>
    /\ ~ub
    /\ \A i \in 1..Len(seq) : Rets[i] <= Rets[i + 1]
    /\ last.k = RangeLen =>
         \A v \in LL : Cardinality({i \in 1..Len(Rets) : Rets[i] = v})
                        = Cardinality({i \in last.l..last.r : ValAt(Calls[1].pre, i) = v})

C14_Witness ==
  /\ KthChain
  /\ last.k = MaxN
  /\ RangeLen = MaxN
  /\ Rets[1] < Rets[MaxN]
  /\ ValAt(Calls[1].pre, last.l) > ValAt(Calls[1].pre, last.r)
  /\ Calls[1].sp.s2 = Calls[1].pre
\* C20: in add, assign, kth and powsum on a valid range the split at r + 1 is
\* made first and the split at l second, and the second split does not erase
\* the interval the first returned: when the walk starts, itr is the live
\* interval starting at r + 1 (end() when r = n - 1) and itl the live interval
\* starting at l.
C20_SplitOrder ==
  (last.op \in RangeOps) =>
    /\ last.sp.s1 = split_(last.pre, last.pre_n, last.r + 1).s
    /\ last.sp.s2 = split_(last.sp.s1, last.pre_n, last.l).s
    /\ ~last.sp.ub
    /\ ~last.sp.dangling
    /\ IF last.r = last.pre_n - 1 THEN last.sp.itr = EndIt
       ELSE last.sp.itr = It(last.r + 1) /\ last.r + 1 \in Keys(last.sp.s2)
    /\ last.sp.itl = It(last.l)
    /\ last.l \in Keys(last.sp.s2)
    /\ WalkKeys(last.sp) = {k \in Keys(last.sp.s2) : last.l <= k /\ k <= last.r}

C20_Witness ==
  /\ last.op \in RangeOps
  /\ \E m \in last.pre : m.l < last.l /\ last.r < m.r
  /\ last.sp.s1 # last.pre
  /\ last.sp.s2 # last.sp.s1
  /\ ~last.sp.itr.atEnd
\* What the reference map holds for a key: <<value>>, or <<>> when absent.
RefGet(key) == IF Normalized(key) \in DOMAIN ref THEN <<ref[Normalized(key)]>> ELSE <<>>

\* C15: after any sequence of puts (rehashes included) every put has returned
\* true, get(k) is the value of the latest put whose key equals k ignoring
\* ASCII case, and nullopt when there was none, and size() is the number of
\* distinct case-insensitive keys put.
C15_MapRefinement ==
  (_size > 0) =>
    /\ put_ret
    /\ \A key \in KeyStrings : get(TableNow, key) = RefGet(key)
    /\ _elements = Cardinality(DOMAIN ref)

\* Three entries after a rehash, "a" stored under the spelling "a" with the
\* value 2 while "A" is what a later put could have written, one entry
\* displaced from its home bucket, and a key never put.
C15_Witness ==
  /\ _size > MaxBuckets
  /\ _elements = 3
  /\ \E i \in 0..(_size - 1) :
       /\ _buckets[i].occupied
       /\ _buckets[i].key = <<97>>
       /\ _buckets[i].value = 2
  /\ get(TableNow, <<65>>) = <<2>>
  /\ get(TableNow, <<98, 98>>) = <<>>
  /\ \E i \in 0..(_size - 1) :
       /\ _buckets[i].occupied
       /\ Mod32(HashOf[_buckets[i].key].offset, _size) # i

\* C16: after every put the load factor size() / capacity() is strictly below
\* MAX_LOAD_FACTOR and the "table is full" end of insert_impl has not been
\* reached, whatever positive bucket count the table was constructed with.
C16_LoadFactorBelowMax ==
  (_size > 0) => (LoadBelowMax(TableNow) /\ ~full /\ put_ret)

\* C17: my_minmax returns nullopt for the empty array and the pair (minimum,
\* maximum) of all the elements for every other array.
C17_MinMax ==
  (mm_result.op = "my_minmax") =>
    IF mm_arr = <<>> THEN mm_result.value = <<>>
    ELSE mm_result.value = <<Min({mm_arr[i] : i \in 1..Len(mm_arr)}),
                             Max({mm_arr[i] : i \in 1..Len(mm_arr)})>>

\* The element at index k of arr sorted ascending: the value v with at most k
\* elements below it and more than k elements not above it.
SortedAt(arr, k) ==
  CHOOSE v \in {arr[i] : i \in 1..Len(arr)} :
    /\ Cardinality({i \in 1..Len(arr) : arr[i] < v}) <= k
    /\ Cardinality({i \in 1..Len(arr) : arr[i] <= v}) > k

\* C18: kth_element_inplace(A, k) and kth_element(A, k) terminate and return
\* the element at index k of A sorted ascending, for every non-empty A and
\* 0 <= k < |A|; kth_element leaves the caller's A as it was.
C18_KthElement ==
  (qs_ret.op \in {"kth_element_inplace", "kth_element"}) =>
    /\ ~qs_ret.timeout
    /\ qs_ret.value = SortedAt(qs_in, qs_k)
    /\ qs_ret.op = "kth_element" => qs_A = qs_in

\* A reverse-sorted vector with a duplicate, an inner k, by the in-place call
\* (which has moved elements).
C18_Witness ==
  /\ qs_ret.op = "kth_element_inplace"
  /\ Len(qs_in) = 5
  /\ \A i \in 1..4 : qs_in[i] >= qs_in[i + 1]
  /\ qs_in[1] > qs_in[5]
  /\ qs_k = 2
  /\ qs_A # qs_in

\* The Levenshtein distance by its defining recurrence.
RECURSIVE Lev(_, _)
Lev(a, b) ==
  IF a = <<>> THEN Len(b)
  ELSE IF b = <<>> THEN Len(a)
  ELSE Min({Lev(Tail(a), b) + 1, Lev(a, Tail(b)) + 1,
            Lev(Tail(a), Tail(b)) + (IF Head(a) = Head(b) THEN 0 ELSE 1)})

Stored == {node.word : node \in root_}

\* C19: on a non-empty tree find_closest_word(q, closest, d) returns true, d
\* is the least Levenshtein distance from q to a stored word and closest is a
\* stored word at that distance; on an empty tree it throws.
C19_FindClosest ==
  \A q \in Words :
    LET f == find_closest_word(root_, q)
    IN IF root_ = {} THEN f.thrown
       ELSE /\ ~f.thrown
            /\ f.ret
            /\ f.closest \in Stored
            /\ Lev(f.closest, q) = f.best_dist
            /\ \A w \in Stored : Lev(w, q) >= f.best_dist

\* A tree three levels deep whose root is at distance 1 from "ab", which is
\* not stored: the root's child at distance 3 lies outside [1 - 1, 1 + 1] and
\* is pruned, and the search returns distance 1.
C19_Witness ==
  /\ \E node \in root_ : Len(node.path) = 2
  /\ <<97, 98>> \notin Stored
  /\ Lev(NodeOn(root_, <<>>).word, <<97, 98>>) = 1
  /\ 3 \in Children(root_, <<>>)
  /\ ~Visited(3, 1, 1)
  /\ find_closest_word(root_, <<97, 98>>).best_dist = 1

\* The intervals the last call walked, from lo = split(l) up to but excluding
\* hi = split(r + 1), and the positions an interval covers.
Walked == {m \in last.sp.s2 : m.l \in WalkKeys(last.sp)}
Covered(m) == m.l..m.r

\* C21: for 0 <= l <= r < n, after hi = split(r + 1) and lo = split(l) the
\* intervals from lo up to but excluding hi are exactly the intervals inside
\* [l, r]: the first starts at l, the last ends at r, their union is
\* {l, ..., r}, and no interval straddles l or r + 1.
C21_MiddleZone ==
  last.op \in RangeOps =>
    /\ Walked = {m \in last.sp.s2 : last.l <= m.l /\ m.r <= last.r}
    /\ \E m \in Walked : m.l = last.l /\ \A q \in Walked : m.l <= q.l
    /\ \E m \in Walked : m.r = last.r /\ \A q \in Walked : q.l <= m.l
    /\ UNION {Covered(m) : m \in Walked} = last.l..last.r
    /\ \A m \in last.sp.s2 :
         /\ ~(m.l < last.l /\ last.l <= m.r)
         /\ ~(m.l <= last.r /\ last.r < m.r)

\* C21 witness: an interval straddled l before the call, and the middle zone
\* has two intervals with others on both sides of it.
C21_Witness ==
  /\ last.op \in RangeOps
  /\ \E m \in last.pre : m.l < last.l /\ last.l <= m.r
  /\ Cardinality(Walked) = 2
  /\ Cardinality(last.sp.s2) > Cardinality(Walked)

\* The intervals of S with a position in [l, r] of the last call.
Intersecting(S) == {m \in S : m.l <= last.r /\ last.l <= m.r}

\* C22: after assign(l, r, x) exactly one interval intersects [l, r], namely
\* [l, r, x]; assign(0, n - 1, x) leaves one interval, and the interval count
\* after an assign is at most the count before plus 2.
C22_AssignCollapses ==
  last.op = "assign" =>
    /\ Intersecting(s_) = {Node(last.l, last.r, last.x)}
    /\ (last.l = 0 /\ last.r = n_ - 1) => Cardinality(s_) = 1
    /\ Cardinality(s_) <= Cardinality(last.pre) + 2

\* C22 witness: an assign over the whole of a structure of MaxN singletons,
\* none of which held x.
C22_Witness ==
  /\ last.op = "assign"
  /\ last.l = 0 /\ last.r = n_ - 1
  /\ Cardinality(last.pre) = MaxN
  /\ \A m \in last.pre : m.v # last.x
  /\ Cardinality(s_) = 1

\* The boundaries of the intervals of S.
Bounds(S) == {<<m.l, m.r>> : m \in S}
Starts(S) == {m.l : m \in S}
Ends(S) == {m.r : m \in S}

\* C23: add(l, r, x) removes no interval and creates none beyond the two
\* boundary splits: the count after is the count before plus 0, 1 or 2, every
\* boundary that existed before still exists, and the change of value alters
\* no interval's start or end.
C23_AddKeepsIntervals ==
  last.op = "add" =>
    /\ Cardinality(s_) - Cardinality(last.pre) \in {0, 1, 2}
    /\ Starts(last.pre) \subseteq Starts(s_)
    /\ Ends(last.pre) \subseteq Ends(s_)
    /\ Starts(s_) \subseteq Starts(last.pre) \cup {last.l, last.r + 1}
    /\ Bounds(s_) = Bounds(last.sp.s2)

\* C23 witness: an add over two intervals, one of them cut off an interval
\* that reaches outside the range; the two hold the same value after the add
\* and stay two intervals.
C23_Witness ==
  /\ last.op = "add"
  /\ Cardinality(Walked) = 2
  /\ Cardinality(s_) = Cardinality(last.pre) + 1
  /\ Cardinality(Intersecting(s_)) = 2
  /\ Cardinality({m.v : m \in Intersecting(s_)}) = 1

\* C24: kth and powsum are read-only on values: the value at every index is
\* the same after the call as before, the interval set is the one the two
\* boundary splits left, so the count does not decrease and grows by at most
\* 2; of the range operations only assign can reduce the count.
C24_QueriesReadOnly ==
  /\ last.op \in {"kth", "powsum"} =>
       /\ \A i \in 0..(n_ - 1) : ValsAt(s_, i) = ValsAt(last.pre, i)
       /\ s_ = last.sp.s2
       /\ Cardinality(s_) - Cardinality(last.pre) \in {0, 1, 2}
  /\ last.op \in {"add", "kth", "powsum"} => Cardinality(s_) >= Cardinality(last.pre)

\* C24 witness: a powsum strictly inside one interval holding -1, with a
\* modulus that normalizes -1 to another value: two splits, no value changed.
C24_Witness ==
  /\ last.op = "powsum"
  /\ last.pre = {Node(0, MaxN - 1, -1)}
  /\ last.y = 3
  /\ last.x = 1
  /\ Cardinality(s_) = 3
  /\ last.ret = 2

\* C25: mulmod(a, b, mod) is overflow-safe within the operands' width: for
\* every mod with 0 < mod <= 2^(W-1) - 1 and every a, b no intermediate value
\* leaves the signed W-bit range, and the result is (a * b) mod mod in [0, mod).
C25_MulmodSafe ==
  ar_call.ret.op = "mulmod_" =>
    /\ ~ar_call.ret.value.ovf
    /\ ar_call.ret.value.val = (ar_call.a * ar_call.b) % ar_call.mod

\* C25, where the code meets it: the moduli up to 2^(W-2).
C25_MulmodSafeSmallMod ==
  (ar_call.ret.op = "mulmod_" /\ ar_call.mod <= 2^(W - 2)) =>
    /\ ~ar_call.ret.value.ovf
    /\ ar_call.ret.value.val = (ar_call.a * ar_call.b) % ar_call.mod

\* base^exp mod mod, exactly.
RECURSIVE PowMod(_, _, _)
PowMod(b, e, m) == IF e = 0 THEN 1 % m ELSE ((b % m) * PowMod(b, e - 1, m)) % m

\* C26: qpow(base, exp, mod) terminates and returns base^exp mod mod in
\* [0, mod) for every mod > 0, exp >= 0 and every base, negative bases and
\* bases >= mod included; for exp = 0 it returns 1 mod mod (0 when mod = 1).
C26_QpowValue ==
  ar_call.ret.op = "qpow_" =>
    /\ ~ar_call.ret.value.ovf
    /\ ar_call.ret.value.val = PowMod(ar_call.a, ar_call.b, ar_call.mod)

\* C26, where the code meets it: the calls in which no step overflows.
C26_QpowValueWithoutOverflow ==
  (ar_call.ret.op = "qpow_" /\ ~ar_call.ret.value.ovf) =>
    ar_call.ret.value.val = PowMod(ar_call.a, ar_call.b, ar_call.mod)

\* Two intervals of S that follow one another and hold the same value.
AdjacentEqual(S) == \E m, q \in S : q.l = m.r + 1 /\ q.v = m.v

\* C27: the structure represents the sequence as maximal same-value runs: in
\* every reachable state (after build and any sequence of valid calls) no two
\* adjacent intervals hold the same value.
C27_MaximalRuns == (built /\ n_ >= 1) => ~AdjacentEqual(s_)

\* C27 as amended: the runs are same-value runs that need not be maximal.  In
\* every reachable state every index of [0, n) lies in exactly one interval
\* (whose one value it holds), no interval is empty or reaches outside
\* [0, n), and there are at most n intervals.
C27_SameValueRuns ==
  (built /\ n_ >= 1) =>
    /\ \A i \in 0..(n_ - 1) : Cardinality({m \in s_ : i \in Covered(m)}) = 1
    /\ \A m \in s_ : m.l <= m.r /\ Covered(m) \subseteq 0..(n_ - 1)
    /\ Cardinality(s_) <= n_

\* C27 witness: a query cut a run in two, and the two halves, which hold
\* the same value, stay two intervals; another interval holds another value.
C27_Witness ==
  /\ last.op \in {"kth", "powsum"}
  /\ ~AdjacentEqual(last.pre)
  /\ AdjacentEqual(s_)
  /\ Cardinality({m.v : m \in s_}) = 2
  /\ Cardinality(s_) = n_

\* C28: build(a) (re)initializes the structure from any prior state:
\* afterwards n is |a| and the interval set is exactly
\* { [i, i, a[i]] : 0 <= i < |a| }, nothing of an earlier build or of earlier
\* operations remaining.
C28_BuildReinitializes ==
  last.op = "build" =>
    /\ n_ = Len(last.a)
    /\ s_ = {Node(i, i, last.a[i + 1]) : i \in 0..(Len(last.a) - 1)}

\* C28 witness: a build of a shorter array over a structure built before,
\* whose intervals beyond the new length are gone.
C28_Witness ==
  /\ last.op = "build"
  /\ last.pre_n > n_
  /\ n_ >= 2
  /\ Keys(s_) = 0..(n_ - 1)
  /\ Cardinality({m.v : m \in s_}) = n_

\* C29: kth returns -1 if k is invalid: for 0 <= l <= r < n and any k that is
\* not a valid 1-based rank, k <= 0 as well as k > r - l + 1, kth(l, r, k)
\* returns -1.
C29_KthInvalidReturnsMinusOne ==
  (/\ last.op = "kth"
   /\ 0 <= last.l /\ last.l <= last.r /\ last.r < last.pre_n
   /\ (last.k <= 0 \/ last.k > RangeLen)) =>
    last.ret = -1

\* The exact product and power of square matrices, and a matrix with every
\* entry reduced into [0, m).
RECURSIVE Dot(_, _, _, _, _)
Dot(A, B, i, j, k) == IF k = 0 THEN 0 ELSE Dot(A, B, i, j, k - 1) + A[i][k] * B[k][j]

Product(A, B) == [i \in 1..Len(A) |-> [j \in 1..Len(A) |-> Dot(A, B, i, j, Len(A))]]

RECURSIVE Power(_, _)
Power(A, e) ==
  IF e = 0 THEN [i \in 1..Len(A) |-> [j \in 1..Len(A) |-> IF i = j THEN 1 ELSE 0]]
  ELSE Product(A, Power(A, e - 1))

Reduced(A, m) == [i \in 1..Len(A) |-> [j \in 1..Len(A) |-> A[i][j] % m]]

\* C30: the modular pow(M, e, mod) with mod > 0 returns M^e with every entry
\* reduced into [0, mod), for every e >= 0, e = 0 included (the identity
\* reduced mod mod, the zero matrix when mod = 1), in DynamicMatrix::pow and
\* in Mat::pow.
C30_MatrixPow ==
  mx_call.ret.op \in {"DynamicMatrix::pow", "Mat::pow"} =>
    /\ ~mx_call.ret.value.thrown
    /\ mx_call.ret.value.M = Reduced(Power(mx_call.base, mx_call.e), mx_call.mod)

\* C30, where the code meets it: every call but those with e = 0 and mod = 1.
C30_MatrixPowButZeroModOne ==
  (mx_call.ret.op \in {"DynamicMatrix::pow", "Mat::pow"} /\ ~(mx_call.e = 0 /\ mx_call.mod = 1)) =>
    /\ ~mx_call.ret.value.thrown
    /\ mx_call.ret.value.M = Reduced(Power(mx_call.base, mx_call.e), mx_call.mod)
====
